---- MODULE Spec2Model ----
(***************************************************************************)
(* PlatformAccessory (hoobs-core / homebridge): the service registry of    *)
(* one accessory, its attached HAP accessory, and the conversion of the    *)
(* accessory to and from a plain dictionary.                               *)
(***************************************************************************)
EXTENDS Integers, Sequences, FiniteSets, TLC

VARIABLES
    displayName,            \* this.displayName
    UUID,                   \* this.UUID
    category,               \* this.category
    context,                \* this.context
    associatedPlugin,       \* this._associatedPlugin
    associatedPlatform,     \* this._associatedPlatform
    services,               \* this.services: sequence of object references
    reachable,              \* this.reachable
    cameraSource,           \* this.cameraSource
    associatedHAPAccessory, \* this._associatedHAPAccessory
    heap,                   \* the Service objects, by reference
    pending,                \* a dictionary handed over, not yet read back
    identify,               \* the "identify" event: subscribers, and what was done
    last                    \* the last call: operation, argument, outcome

\* what only _configFromData writes
configVars == <<displayName, UUID, category, context, associatedPlugin,
                associatedPlatform, pending>>
\* what the operations of the registry leave alone
metaVars == <<configVars, identify>>
vars == <<displayName, UUID, category, context, associatedPlugin, associatedPlatform,
          services, reachable, cameraSource, associatedHAPAccessory, heap, pending,
          identify, last>>

(***************************************************************************)
(* Bounds.                                                                 *)
(***************************************************************************)
MaxServices == 3       \* longest `services` an addService may extend
MaxLinks == 1          \* linked-service edges the plugin sets up
MaxSignals == 3        \* identify signals the attached accessory delivers
MaxIdentifyListeners == 2  \* subscribers of the accessory's identify event

(***************************************************************************)
(* JavaScript values: strings, numbers and undefined.                      *)
(***************************************************************************)
Str(s) == [t |-> "string", s |-> s]
Num(n) == [t |-> "number", n |-> n]
Undefined == [t |-> "undefined"]

\* !v
Truthy(v) ==
    CASE v.t = "string" -> v.s # ""
      [] v.t = "number" -> v.n # 0
      [] OTHER -> FALSE

\* Number.prototype.toString for the array indices and numeric subtypes in use
NumToString(n) ==
    CASE n = 0 -> "0" [] n = 1 -> "1" [] n = 2 -> "2" [] n = 3 -> "3" [] n = 4 -> "4"
      [] n = 5 -> "5" [] n = 6 -> "6" [] n = 7 -> "7" [] n = 8 -> "8" [] OTHER -> "9"

\* v.toString(), for a v that is a string or a number
toString(v) == IF v.t = "number" THEN NumToString(v.n) ELSE v.s

Range(seq) == {seq[i] : i \in 1..Len(seq)}

(***************************************************************************)
(* Service types (constructors) and Service objects.                       *)
(***************************************************************************)
AccessoryInformationUUID == "3E"

\* the static UUID of a constructor; the base Service has none
TypeUUID(T) ==
    CASE T = "AccessoryInformation" -> Str(AccessoryInformationUUID)
      [] T = "TypeA" -> Str("A")
      [] T = "TypeAB" -> Str("AB")
      [] OTHER -> Undefined

\* service instanceof T
InstanceOf(svc, T) == T = "Service" \/ svc.ctor = T

Characteristic(name, uuid, value) ==
    [displayName |-> name, UUID |-> uuid, props |-> "props-" \o uuid,
     value |-> value, eventOnlyCharacteristic |-> FALSE]

\* new T(displayName, subtype), as hap-nodejs constructs a Service
NewService(T, name, subtype, chars) ==
    [displayName |-> name, name |-> Undefined, UUID |-> toString(TypeUUID(T)),
     subtype |-> subtype, ctor |-> T, characteristics |-> chars,
     linkedServices |-> <<>>, listeners |-> 0]

\* what servicesMap[key] yields for a key that only Object.prototype defines
BuiltinRef == 0
\* the result of a lookup that finds nothing
NoService == 0 - 1

InfoRef == 1
\* The references the plugin holds to Services it has made itself.
PluginRefs == 2..7

InfoService(name) ==
    NewService("AccessoryInformation", Undefined, Undefined,
               << Characteristic("Name", "23", name),
                  Characteristic("Manufacturer", "20", "Default-Manufacturer"),
                  Characteristic("Model", "21", "Default-Model"),
                  Characteristic("Serial Number", "30", "Default-SerialNumber") >>)

PluginService(ref) ==
    CASE ref = 2 -> NewService("TypeA", Str("Lamp"), Undefined,
                               <<Characteristic("On", "25", "true")>>)
      [] ref = 3 -> NewService("TypeA", Str("Lamp"), Str("B"), <<>>)
      [] ref = 4 -> NewService("TypeA", Str("Spot"), Str("B"), <<>>)
      [] ref = 5 -> NewService("TypeAB", Str("Fan"), Undefined, <<>>)
      [] ref = 6 -> NewService("TypeA", Str("Strip"), Str(""), <<>>)
      [] OTHER   -> [NewService("TypeA", Str("Dimmer"), Num(1), <<>>)
                        EXCEPT !.name = Str("dim")]

\* The camera source of the plugin: an object with a `services` list
CameraSources == {"cam"}
CameraServices(cam) == <<7, 5>>

\* The Services whose events the plugin subscribes to
ListenedRefs == {InfoRef, 3}

(***************************************************************************)
(* Garbage: a Service object nothing refers to any more leaves the heap.   *)
(***************************************************************************)
RECURSIVE Closure(_, _)
Closure(h, refs) ==
    LET more == refs \cup UNION {Range(h[r].linkedServices) : r \in refs \cap DOMAIN h}
    IN IF more = refs THEN refs ELSE Closure(h, more)

Collect(h, svcs, hap) ==
    LET roots == ({InfoRef} \cup PluginRefs) \cup Range(svcs) \cup Range(hap.services)
        live == Closure(h, roots \cap DOMAIN h)
    IN [r \in live \cap DOMAIN h |-> h[r]]

\* the reference the k-th object constructed next gets (k = 0, 1, ...)
FreshRef(h, k) ==
    CHOOSE r \in 8..(8 + Cardinality(DOMAIN h) + k) :
        /\ Cardinality({q \in 8..r : q \notin DOMAIN h}) = k + 1
        /\ r \notin DOMAIN h

(***************************************************************************)
(* The state after `new PlatformAccessory(displayName, UUID, category)`.   *)
(***************************************************************************)
NoHAPAccessory ==
    [attached |-> FALSE, services |-> <<>>, category |-> "", reachable |-> FALSE,
     cameraSource |-> Undefined, onIdentify |-> FALSE]

\* the EventEmitter part of a new accessory: no subscriber, nothing emitted,
\* nothing sent to the parent process, no callback invoked
NoIdentify ==
    [listeners |-> 0, signals |-> 0, emitted |-> <<>>, sent |-> <<>>, acked |-> <<>>]

Init ==
    /\ displayName = "Acc"
    /\ UUID = "6a1b7b0e-3c5d-4f6a-8b7c-9d0e1f2a3b4c"
    /\ category = "OTHER"
    /\ context = "{}"
    /\ associatedPlugin = Undefined
    /\ associatedPlatform = Undefined
    /\ services = <<InfoRef>>
    /\ reachable = FALSE
    /\ cameraSource = Undefined
    /\ associatedHAPAccessory = NoHAPAccessory
    /\ heap = [r \in {InfoRef} \cup PluginRefs |->
                 IF r = InfoRef THEN InfoService("Acc") ELSE PluginService(r)]
    /\ pending = Undefined
    /\ identify = NoIdentify
    /\ last = [op |-> "new", arg |-> Undefined, result |-> "ok", ret |-> Undefined]

(***************************************************************************)
(* addService                                                              *)
(***************************************************************************)
\* The loop over this.services: the first throw ends it.
RECURSIVE IdentityCheckFrom(_, _, _, _)
IdentityCheckFrom(i, svcs, h, service) ==
    IF i > Len(svcs) THEN "ok"
    ELSE LET existing == h[svcs[i]]
         IN IF existing.UUID = service.UUID
            THEN IF ~Truthy(service.subtype) THEN "DuplicateUUID"
                 ELSE IF existing.subtype = Undefined THEN "TypeError"
                 ELSE IF toString(service.subtype) = toString(existing.subtype)
                      THEN "DuplicateSubtype"
                 ELSE IdentityCheckFrom(i + 1, svcs, h, service)
            ELSE IdentityCheckFrom(i + 1, svcs, h, service)

\* the check with the comparison of the subtypes left out
IdentityCheckWithoutSubtypes(svcs, h, service) ==
    IF \E i \in 1..Len(svcs) : h[svcs[i]].UUID = service.UUID /\ ~Truthy(service.subtype)
    THEN "DuplicateUUID"
    ELSE "ok"

IdentityCheck(svcs, h, service) == IdentityCheckFrom(1, svcs, h, service)

\* the addition not passed on to the attached accessory
HAPAddServiceForgotten(hap, ref) == hap

\* this._associatedHAPAccessory.addService(service)
HAPAddService(hap, ref) ==
    IF hap.attached THEN [hap EXCEPT !.services = Append(@, ref)] ELSE hap

\* addService that pushes the service before it validates it
AddObjectPushedFirst(svcs, hap, h, ref) ==
    [services |-> Append(svcs, ref), hap |-> HAPAddService(hap, ref),
     result |-> IdentityCheck(svcs, h, h[ref])]

\* addService of the object `ref`, from the registry (svcs, hap): what it leaves
AddObject(svcs, hap, h, ref) ==
    LET check == IdentityCheck(svcs, h, h[ref])
    IN IF check = "ok"
       THEN [services |-> Append(svcs, ref), hap |-> HAPAddService(hap, ref),
             result |-> "ok"]
       ELSE [services |-> svcs, hap |-> hap, result |-> check]

\* the arguments of addService: a ready-made Service, or a constructor and
\* its arguments
ObjectArg(ref) == [kind |-> "object", ref |-> ref]
FunctionArg(T, name, subtype) ==
    [kind |-> "function", ctor |-> T, displayName |-> name, subtype |-> subtype]

AddService(service) ==
    /\ Len(services) < MaxServices
    /\ LET ref == IF service.kind = "function" THEN FreshRef(heap, 0) ELSE service.ref
           h == IF service.kind = "function"
                THEN heap @@ (ref :> NewService(service.ctor, service.displayName,
                                                service.subtype, <<>>))
                ELSE heap
           out == AddObject(services, associatedHAPAccessory, h, ref)
       IN /\ services' = out.services
          /\ associatedHAPAccessory' = out.hap
          /\ heap' = Collect(h, out.services, out.hap)
          /\ last' = [op |-> "addService", arg |-> service, result |-> out.result,
                      ret |-> IF out.result = "ok" THEN ref ELSE NoService]
    /\ UNCHANGED <<metaVars, reachable, cameraSource>>

(***************************************************************************)
(* removeService                                                           *)
(***************************************************************************)
\* the service looked up by UUID and subtype, not by reference
TargetServiceIndexByKey(svcs, ref) ==
    LET same(r) == heap[r].UUID = heap[ref].UUID /\ heap[r].subtype = heap[ref].subtype
    IN IF \E i \in 1..Len(svcs) : same(svcs[i])
       THEN Str(NumToString((CHOOSE i \in 1..Len(svcs) :
                               same(svcs[i]) /\ \A j \in 1..(i - 1) : ~same(svcs[j])) - 1))
       ELSE Undefined

\* the index kept as a number, so that index 0 is falsy
TargetServiceIndexAsNumber(svcs, ref) ==
    IF \E i \in 1..Len(svcs) : svcs[i] = ref
    THEN Num((CHOOSE i \in 1..Len(svcs) :
                svcs[i] = ref /\ \A j \in 1..(i - 1) : svcs[j] # ref) - 1)
    ELSE Undefined

\* the key of the for-in loop at which the service is found: a string
TargetServiceIndex(svcs, ref) ==
    IF \E i \in 1..Len(svcs) : svcs[i] = ref
    THEN Str(NumToString((CHOOSE i \in 1..Len(svcs) :
                            svcs[i] = ref /\ \A j \in 1..(i - 1) : svcs[j] # ref) - 1))
    ELSE Undefined

\* array.splice(index, 1), the index converted to a number
Splice(seq, index) ==
    LET n == CHOOSE k \in 0..9 : NumToString(k) = toString(index)
    IN [i \in 1..(Len(seq) - 1) |-> IF i <= n THEN seq[i] ELSE seq[i + 1]]

\* the removal not passed on to the attached accessory
HAPRemoveServiceForgotten(hap, ref) == hap

\* this._associatedHAPAccessory.removeService(service)
HAPRemoveService(hap, ref) ==
    IF hap.attached /\ ref \in Range(hap.services)
    THEN [hap EXCEPT !.services = Splice(@, TargetServiceIndex(@, ref))]
    ELSE hap

RemoveService(ref) ==
    /\ LET targetServiceIndex == TargetServiceIndex(services, ref)
       IN IF Truthy(targetServiceIndex)
          THEN LET svcs == Splice(services, targetServiceIndex)
                   hap == HAPRemoveService(associatedHAPAccessory, ref)
               IN /\ services' = svcs
                  /\ associatedHAPAccessory' = hap
                  /\ heap' = Collect([heap EXCEPT ![ref].listeners = 0], svcs, hap)
          ELSE UNCHANGED <<services, associatedHAPAccessory, heap>>
    /\ last' = [op |-> "removeService", arg |-> ref, result |-> "ok",
                ret |-> TargetServiceIndex(services, ref)]
    /\ UNCHANGED <<metaVars, reachable, cameraSource>>

\* service.on(event, listener): a subscription on a Service object
ServiceOn(ref) ==
    /\ heap[ref].listeners = 0
    /\ heap' = [heap EXCEPT ![ref].listeners = 1]
    /\ last' = [op |-> "on", arg |-> ref, result |-> "ok", ret |-> Undefined]
    /\ UNCHANGED <<metaVars, services, reachable, cameraSource, associatedHAPAccessory>>

(***************************************************************************)
(* getService                                                              *)
(***************************************************************************)
StringSelector(s) == [kind |-> "string", s |-> s]
FunctionSelector(T) == [kind |-> "function", ctor |-> T]

Matches(svc, name) ==
    \/ /\ name.kind = "string"
       /\ svc.displayName = Str(name.s) \/ svc.name = Str(name.s)
    \/ /\ name.kind = "function"
       /\ InstanceOf(svc, name.ctor) \/ TypeUUID(name.ctor) = Str(svc.UUID)

\* the loop run to its end: the last match returned, not the first
GetServiceInLast(svcs, h, name) ==
    IF \E i \in 1..Len(svcs) : Matches(h[svcs[i]], name)
    THEN svcs[CHOOSE i \in 1..Len(svcs) :
                /\ Matches(h[svcs[i]], name)
                /\ \A j \in (i + 1)..Len(svcs) : ~Matches(h[svcs[j]], name)]
    ELSE NoService

GetServiceIn(svcs, h, name) ==
    IF \E i \in 1..Len(svcs) : Matches(h[svcs[i]], name)
    THEN svcs[CHOOSE i \in 1..Len(svcs) :
                /\ Matches(h[svcs[i]], name)
                /\ \A j \in 1..(i - 1) : ~Matches(h[svcs[j]], name)]
    ELSE NoService

GetService(name) ==
    /\ last' = [op |-> "getService", arg |-> name, result |-> "ok",
                ret |-> GetServiceIn(services, heap, name)]
    /\ UNCHANGED <<metaVars, services, reachable, cameraSource,
                   associatedHAPAccessory, heap>>

\* the loop of getServiceByUUIDAndSubType: service.subtype === subtype as well
GetServiceByUUIDAndSubTypeIn(svcs, h, name, subtype) ==
    LET hit(i) == Matches(h[svcs[i]], name) /\ h[svcs[i]].subtype = subtype
    IN IF \E i \in 1..Len(svcs) : hit(i)
       THEN svcs[CHOOSE i \in 1..Len(svcs) : hit(i) /\ \A j \in 1..(i - 1) : ~hit(j)]
       ELSE NoService

GetServiceByUUIDAndSubType(name, subtype) ==
    /\ last' = [op |-> "getServiceByUUIDAndSubType", arg |-> <<name, subtype>>,
                result |-> "ok",
                ret |-> GetServiceByUUIDAndSubTypeIn(services, heap, name, subtype)]
    /\ UNCHANGED <<metaVars, services, reachable, cameraSource,
                   associatedHAPAccessory, heap>>

(***************************************************************************)
(* updateReachability, configureCameraSource, attachment                   *)
(***************************************************************************)
\* updateReachability that sets the local flag only
UpdateReachabilityLocalOnly(value) ==
    /\ reachable' = value
    /\ last' = [op |-> "updateReachability", arg |-> value, result |-> "ok",
                ret |-> Undefined]
    /\ UNCHANGED <<metaVars, services, cameraSource, heap, associatedHAPAccessory>>

UpdateReachability(value) ==
    /\ reachable' = value
    /\ associatedHAPAccessory' =
           IF associatedHAPAccessory.attached
           THEN [associatedHAPAccessory EXCEPT !.reachable = value]
           ELSE associatedHAPAccessory
    /\ last' = [op |-> "updateReachability", arg |-> value, result |-> "ok",
                ret |-> Undefined]
    /\ UNCHANGED <<metaVars, services, cameraSource, heap>>

\* the services of the source pushed as they are, past addService
AddAllUnchecked(i, list, svcs, hap, h) ==
    [services |-> svcs \o list,
     hap |-> IF hap.attached THEN [hap EXCEPT !.services = @ \o list] ELSE hap,
     result |-> "ok"]

\* the loop over cameraSource.services: each through addService, until one throws
RECURSIVE AddAll(_, _, _, _, _)
AddAll(i, list, svcs, hap, h) ==
    IF i > Len(list) THEN [services |-> svcs, hap |-> hap, result |-> "ok"]
    ELSE LET out == AddObject(svcs, hap, h, list[i])
         IN IF out.result = "ok"
            THEN AddAll(i + 1, list, out.services, out.hap, h)
            ELSE out

ConfigureCameraSource(source) ==
    /\ Len(services) < MaxServices
    /\ cameraSource' = source
    /\ LET out == AddAll(1, CameraServices(source), services,
                         associatedHAPAccessory, heap)
       IN /\ services' = out.services
          /\ associatedHAPAccessory' = out.hap
          /\ last' = [op |-> "configureCameraSource", arg |-> source,
                      result |-> out.result, ret |-> Undefined]
    /\ UNCHANGED <<metaVars, reachable, heap>>

\* new Accessory(...), the camera source handed on if there is one, then
\* _sideloadServices(this.services), which replaces the service list of the
\* new accessory by a copy of this.services; category and reachable copied;
\* the identify handler subscribed on the new accessory
PrepareAssociatedHAPAccessory ==
    /\ LET hap == [attached |-> TRUE, services |-> services,
                   category |-> category, reachable |-> reachable,
                   cameraSource |-> cameraSource, onIdentify |-> TRUE]
       IN /\ associatedHAPAccessory' = hap
          /\ heap' = Collect(heap, services, hap)
    /\ last' = [op |-> "prepareAssociatedHAPAccessory", arg |-> Undefined,
                result |-> "ok", ret |-> Undefined]
    /\ UNCHANGED <<metaVars, services, reachable, cameraSource>>

(***************************************************************************)
(* The identify relay.                                                     *)
(***************************************************************************)
\* accessory.on("identify", listener) and accessory.removeListener(...)
OnIdentify ==
    /\ identify.listeners < MaxIdentifyListeners
    /\ identify' = [identify EXCEPT !.listeners = @ + 1]
    /\ last' = [op |-> "onIdentify", arg |-> Undefined, result |-> "ok", ret |-> Undefined]
    /\ UNCHANGED <<configVars, services, reachable, cameraSource,
                   associatedHAPAccessory, heap>>

RemoveIdentifyListener ==
    /\ identify.listeners > 0
    /\ identify' = [identify EXCEPT !.listeners = @ - 1]
    /\ last' = [op |-> "removeListener", arg |-> Undefined, result |-> "ok",
                ret |-> Undefined]
    /\ UNCHANGED <<configVars, services, reachable, cameraSource,
                   associatedHAPAccessory, heap>>

\* the handler that relays to the parent process and acknowledges as well
IdentifyHandlerAcksToo(idf, paired, callback) ==
    [idf EXCEPT !.emitted = @ \o [k \in 1..idf.listeners |->
                                    [listener |-> k, paired |-> paired,
                                     callback |-> callback]],
                !.sent = Append(@, [event |-> "identify", data |-> paired]),
                !.acked = Append(@, callback)]

\* function (paired, callback) { ... }: the handler of the accessory's
\* "identify" signal
IdentifyHandler(idf, paired, callback) ==
    IF idf.listeners > 0
    THEN [idf EXCEPT !.emitted = @ \o [k \in 1..idf.listeners |->
                                         [listener |-> k, paired |-> paired,
                                          callback |-> callback]],
                     !.sent = Append(@, [event |-> "identify", data |-> paired])]
    ELSE [idf EXCEPT !.acked = Append(@, callback)]

\* the attached accessory emits "identify" with a callback of its own
Identify(paired) ==
    /\ associatedHAPAccessory.attached /\ associatedHAPAccessory.onIdentify
    /\ identify.signals < MaxSignals
    /\ LET callback == identify.signals + 1
       IN identify' = [IdentifyHandler(identify, paired, callback)
                         EXCEPT !.signals = callback]
    /\ last' = [op |-> "identify", arg |-> paired, result |-> "ok", ret |-> Undefined]
    /\ UNCHANGED <<configVars, services, reachable, cameraSource,
                   associatedHAPAccessory, heap>>

NextIdentify ==
    \/ OnIdentify
    \/ RemoveIdentifyListener
    \/ PrepareAssociatedHAPAccessory
    \/ \E paired \in BOOLEAN : Identify(paired)

SpecIdentify == Init /\ [][NextIdentify]_vars

(***************************************************************************)
(* The accessory under its mutation API.                                   *)
(***************************************************************************)
ServiceArgs ==
    {ObjectArg(r) : r \in {InfoRef} \cup PluginRefs}
    \cup {FunctionArg("TypeA", Str("New"), Str("1"))}

Selectors ==
    {StringSelector("Lamp"), FunctionSelector("TypeA")}

Next ==
    \/ \E service \in ServiceArgs : AddService(service)
    \/ \E ref \in DOMAIN heap : RemoveService(ref)
    \/ \E ref \in ListenedRefs : ServiceOn(ref)
    \/ \E name \in Selectors : GetService(name)
    \/ \E value \in BOOLEAN : UpdateReachability(value)
    \/ \E source \in CameraSources : ConfigureCameraSource(source)
    \/ PrepareAssociatedHAPAccessory

Spec == Init /\ [][Next]_vars

(***************************************************************************)
(* _dictionaryPresentation: the accessory as a plain dictionary            *)
(***************************************************************************)
\* UUID + (subtype || "")
CompositeKey(uuid, subtype) ==
    uuid \o (IF Truthy(subtype) THEN toString(subtype) ELSE "")

\* Array.prototype.toString of a list of strings
RECURSIVE ArrayToString(_)
ArrayToString(list) ==
    IF list = <<>> THEN ""
    ELSE IF Len(list) = 1 THEN list[1]
    ELSE list[1] \o "," \o ArrayToString(Tail(list))

\* x.UUID of what a linked-service entry refers to
LinkedUUID(h, ref) == IF ref = BuiltinRef THEN "undefined" ELSE h[ref].UUID

\* the key pushed for one linked service: its UUID, and (linkedServices.subtype
\* || ""), the entry "subtype" of the mapping that is being built
LinkedServiceKey(h, linkedServices, ref) ==
    LinkedUUID(h, ref) \o (IF "subtype" \in DOMAIN linkedServices
                           THEN ArrayToString(linkedServices["subtype"])
                           ELSE "")

\* linkedServicesPresentation of one service
LinkedServicesPresentation(h, linkedServices, service) ==
    [k \in 1..Len(service.linkedServices) |->
        LinkedServiceKey(h, linkedServices, service.linkedServices[k])]

\* the mapping linkedServices after the services from index i on
RECURSIVE LinkedServicesFrom(_, _, _, _)
LinkedServicesFrom(i, svcs, h, linkedServices) ==
    IF i > Len(svcs) THEN linkedServices
    ELSE LET service == h[svcs[i]]
             key == CompositeKey(service.UUID, service.subtype)
             entry == key :> LinkedServicesPresentation(h, linkedServices, service)
         IN LinkedServicesFrom(i + 1, svcs, h, entry @@ linkedServices)

EmptyMapping == [k \in {} |-> <<>>]

CharacteristicPresentation(characteristic) ==
    [displayName |-> characteristic.displayName, UUID |-> characteristic.UUID,
     props |-> characteristic.props, value |-> characteristic.value,
     eventOnlyCharacteristic |-> characteristic.eventOnlyCharacteristic]

ServicePresentation(service) ==
    [displayName |-> service.displayName, UUID |-> service.UUID,
     subtype |-> service.subtype,
     characteristics |-> [c \in 1..Len(service.characteristics) |->
                            CharacteristicPresentation(service.characteristics[c])]]

DictionaryOf(svcs, h) ==
    [plugin |-> associatedPlugin, platform |-> associatedPlatform,
     displayName |-> displayName, UUID |-> UUID, category |-> category,
     context |-> context,
     linkedServices |-> [present |-> TRUE,
                         map |-> LinkedServicesFrom(1, svcs, h, EmptyMapping)],
     services |-> [i \in 1..Len(svcs) |-> ServicePresentation(h[svcs[i]])]]

DictionaryPresentation ==
    /\ last' = [op |-> "dictionaryPresentation", arg |-> Undefined, result |-> "ok",
                ret |-> DictionaryOf(services, heap)]
    /\ UNCHANGED <<metaVars, services, reachable, cameraSource,
                   associatedHAPAccessory, heap>>

(***************************************************************************)
(* _configFromData: the accessory rebuilt from a dictionary                *)
(***************************************************************************)
\* the keys every object inherits from Object.prototype
ObjectPrototypeKeys == {"constructor", "toString", "valueOf", "hasOwnProperty"}

\* new Characteristic(displayName, UUID, props), then eventOnlyCharacteristic
\* and value assigned
HapCharacteristic(characteristic) ==
    [displayName |-> characteristic.displayName, UUID |-> characteristic.UUID,
     props |-> characteristic.props, value |-> characteristic.value,
     eventOnlyCharacteristic |-> characteristic.eventOnlyCharacteristic]

\* the Service constructed without the subtype of the entry
HapServiceWithoutSubtype(service) ==
    [displayName |-> service.displayName, name |-> Undefined, UUID |-> service.UUID,
     subtype |-> Undefined, ctor |-> "Service",
     characteristics |-> [c \in 1..Len(service.characteristics) |->
                            HapCharacteristic(service.characteristics[c])],
     linkedServices |-> <<>>, listeners |-> 0]

\* new Service(displayName, UUID, subtype) with the characteristics sideloaded
HapService(service) ==
    [displayName |-> service.displayName, name |-> Undefined, UUID |-> service.UUID,
     subtype |-> service.subtype, ctor |-> "Service",
     characteristics |-> [c \in 1..Len(service.characteristics) |->
                            HapCharacteristic(service.characteristics[c])],
     linkedServices |-> <<>>, listeners |-> 0]

\* the map filled under the UUID alone: servicesMap[service.UUID] = hapService
ServicesMapLookupByUUID(data, refs, key) ==
    LET stored == {i \in 1..Len(data.services) : data.services[i].UUID = key}
    IN IF stored # {}
       THEN refs[CHOOSE i \in stored : \A j \in stored : j <= i]
       ELSE IF key \in ObjectPrototypeKeys THEN BuiltinRef
       ELSE NoService

\* servicesMap[key], the references refs[i] standing for the new objects:
\* the last service stored under the key, or what the prototype holds
ServicesMapLookup(data, refs, key) ==
    LET stored == {i \in 1..Len(data.services) :
                     CompositeKey(data.services[i].UUID, data.services[i].subtype) = key}
    IN IF stored # {}
       THEN refs[CHOOSE i \in stored : \A j \in stored : j <= i]
       ELSE IF key \in ObjectPrototypeKeys THEN BuiltinRef
       ELSE NoService

\* service.addLinkedService(target) of hap-nodejs: no entry twice
RECURSIVE AddLinkedAll(_, _)
AddLinkedAll(linked, targets) ==
    IF targets = <<>> THEN linked
    ELSE AddLinkedAll(IF Head(targets) \in Range(linked) THEN linked
                      ELSE Append(linked, Head(targets)),
                      Tail(targets))

\* the targets of the key's list that servicesMap resolves, in order
ResolvedTargets(data, refs, key) ==
    LET list == data.linkedServices.map[key]
        hit == {k \in 1..Len(list) : ServicesMapLookup(data, refs, list[k]) # NoService}
        RECURSIVE from(_)
        from(k) == IF k > Len(list) THEN <<>>
                   ELSE IF k \in hit
                        THEN <<ServicesMapLookup(data, refs, list[k])>> \o from(k + 1)
                        ELSE from(k + 1)
    IN from(1)

\* the linkedServices of the new object refs[i] once the links are resolved
ResolvedLinks(data, refs, i) ==
    LET keys == {key \in DOMAIN data.linkedServices.map :
                    ServicesMapLookup(data, refs, key) = refs[i]}
    IN IF data.linkedServices.present /\ keys # {}
       THEN AddLinkedAll(<<>>, ResolvedTargets(data, refs, CHOOSE key \in keys : TRUE))
       ELSE <<>>

\* a key that resolves to something that is no Service, and a target to link:
\* the call of its addLinkedService throws
LinkingThrows(data, refs) ==
    /\ data.linkedServices.present
    /\ \E key \in DOMAIN data.linkedServices.map :
          /\ ServicesMapLookup(data, refs, key) = BuiltinRef
          /\ ResolvedTargets(data, refs, key) # <<>>

ConfigFromData(data) ==
    /\ associatedPlugin' = data.plugin
    /\ associatedPlatform' = data.platform
    /\ displayName' = data.displayName
    /\ UUID' = data.UUID
    /\ category' = data.category
    /\ context' = data.context
    /\ reachable' = FALSE
    /\ LET kept == Collect(heap, <<>>, associatedHAPAccessory)
           refs == [i \in 1..Len(data.services) |-> FreshRef(kept, i - 1)]
           made == [r \in Range(refs) |->
                      LET i == CHOOSE k \in 1..Len(refs) : refs[k] = r
                      IN [HapService(data.services[i])
                            EXCEPT !.linkedServices = ResolvedLinks(data, refs, i)]]
       IN IF LinkingThrows(data, refs)
          THEN /\ UNCHANGED <<services, heap>>
               /\ last' = [op |-> "configFromData", arg |-> data,
                           result |-> "TypeError", ret |-> Undefined]
          ELSE /\ services' = refs
               /\ heap' = Collect(made @@ kept, refs, associatedHAPAccessory)
               /\ last' = [op |-> "configFromData", arg |-> data,
                           result |-> "ok", ret |-> Undefined]
    /\ UNCHANGED <<cameraSource, associatedHAPAccessory, identify>>

\* service.addLinkedService(target), called by the plugin on its Services
AddLinkedService(ref, target) ==
    /\ LET total == Cardinality({<<r, k>> \in (DOMAIN heap) \X (1..MaxLinks) :
                                    k <= Len(heap[r].linkedServices)})
       IN total < MaxLinks
    /\ target \notin Range(heap[ref].linkedServices)
    /\ heap' = [heap EXCEPT ![ref].linkedServices = Append(@, target)]
    /\ last' = [op |-> "addLinkedService", arg |-> <<ref, target>>, result |-> "ok",
                ret |-> Undefined]
    /\ UNCHANGED <<metaVars, services, reachable, cameraSource, associatedHAPAccessory>>

(***************************************************************************)
(* The accessory saved and restored: its services and their links are set  *)
(* up through the mutation API, the dictionary is taken and read back.     *)
(***************************************************************************)
LinkSources == {InfoRef, 5, 6}
LinkTargets == {3, 5}

NextSerial ==
    \/ \E service \in ServiceArgs : AddService(service)
    \/ \E ref \in DOMAIN heap : RemoveService(ref)
    \/ \E ref \in LinkSources, target \in LinkTargets : AddLinkedService(ref, target)
    \/ DictionaryPresentation
    \/ /\ last.op = "dictionaryPresentation"
       /\ ConfigFromData(last.ret)
       /\ UNCHANGED pending

SpecSerial == Init /\ [][NextSerial]_vars

(***************************************************************************)
(* The accessory restored from arbitrary dictionaries.                     *)
(***************************************************************************)
MaxDataServices == 2   \* longest `services` list of a dictionary

DataServices ==
    {[displayName |-> Str("R"), UUID |-> u, subtype |-> st, characteristics |-> <<>>] :
        u \in {"A", "AB"}, st \in {Undefined, Str("B")}}

DataServiceLists ==
    UNION {[1..n -> DataServices] : n \in 0..MaxDataServices}

DataLinkedServices ==
    {[present |-> FALSE, map |-> EmptyMapping], [present |-> TRUE, map |-> EmptyMapping]}
    \cup {[present |-> TRUE, map |-> key :> list] :
            key \in {"A", "AB", "constructor"},
            list \in {<<t>> : t \in {"A", "AB", "Z", "constructor"}}
                     \cup {<<t, "A">> : t \in {"A", "AB", "Z", "constructor"}}}

DataSet ==
    {[plugin |-> Str("plugin"), platform |-> Str("platform"),
      displayName |-> "Restored", UUID |-> "uuid-2", category |-> "LIGHTBULB",
      context |-> "{k: v}", linkedServices |-> ls, services |-> list] :
        ls \in DataLinkedServices, list \in DataServiceLists}

InitData ==
    /\ displayName = "Acc"
    /\ UUID = "6a1b7b0e-3c5d-4f6a-8b7c-9d0e1f2a3b4c"
    /\ category = "OTHER"
    /\ context = "{}"
    /\ associatedPlugin = Undefined
    /\ associatedPlatform = Undefined
    /\ services = <<InfoRef>>
    /\ reachable = FALSE
    /\ cameraSource = Undefined
    /\ associatedHAPAccessory = NoHAPAccessory
    /\ heap = [r \in {InfoRef} \cup PluginRefs |->
                 IF r = InfoRef THEN InfoService("Acc") ELSE PluginService(r)]
    /\ pending \in DataSet
    /\ identify = NoIdentify
    /\ last = [op |-> "new", arg |-> Undefined, result |-> "ok", ret |-> Undefined]

NextData ==
    /\ pending # Undefined
    /\ ConfigFromData(pending)
    /\ pending' = Undefined

SpecData == InitData /\ [][NextData]_vars

(***************************************************************************)
(* The accessory of a camera.                                              *)
(***************************************************************************)
CameraServiceArgs == {ObjectArg(r) : r \in {2, 3, 5, 7}}

NextCamera ==
    \/ \E service \in CameraServiceArgs : AddService(service)
    \/ \E ref \in Range(services) : RemoveService(ref)
    \/ \E source \in CameraSources : ConfigureCameraSource(source)
    \/ PrepareAssociatedHAPAccessory

SpecCamera == Init /\ [][NextCamera]_vars

(***************************************************************************)
(* An accessory in use, with or without an attached accessory, that is     *)
(* restored from a dictionary and used further.                            *)
(***************************************************************************)
RestoreServices ==
    {[displayName |-> Str("R"), UUID |-> "A", subtype |-> Undefined,
      characteristics |-> <<CharacteristicPresentation(Characteristic("On", "25", "true")),
                            CharacteristicPresentation(Characteristic("Hue", "13", "120"))>>],
     [displayName |-> Str("S"), UUID |-> "A", subtype |-> Str("B"),
      characteristics |-> <<>>],
     [displayName |-> Undefined, UUID |-> AccessoryInformationUUID, subtype |-> Undefined,
      characteristics |-> <<CharacteristicPresentation(Characteristic("Name", "23", "Acc"))>>]}

RestoreDataSet ==
    {[plugin |-> Str("plugin"), platform |-> Str("platform"),
      displayName |-> "Restored", UUID |-> "uuid-2", category |-> "LIGHTBULB",
      context |-> "{k: v}", linkedServices |-> ls, services |-> list] :
        ls \in {[present |-> FALSE, map |-> EmptyMapping],
                [present |-> TRUE, map |-> "3E" :> <<"AB", "A">>],
                [present |-> TRUE, map |-> "constructor" :> <<"A">>]},
        list \in UNION {[1..n -> RestoreServices] : n \in 0..MaxDataServices}}

RestoreServiceArgs == {ObjectArg(2), ObjectArg(3)}

InitRestore ==
    /\ displayName = "Acc"
    /\ UUID = "6a1b7b0e-3c5d-4f6a-8b7c-9d0e1f2a3b4c"
    /\ category = "OTHER"
    /\ context = "{}"
    /\ associatedPlugin = Undefined
    /\ associatedPlatform = Undefined
    /\ services = <<InfoRef>>
    /\ reachable = FALSE
    /\ cameraSource = Undefined
    /\ associatedHAPAccessory = NoHAPAccessory
    /\ heap = [r \in {InfoRef} \cup PluginRefs |->
                 IF r = InfoRef THEN InfoService("Acc") ELSE PluginService(r)]
    /\ pending \in RestoreDataSet
    /\ identify = NoIdentify
    /\ last = [op |-> "new", arg |-> Undefined, result |-> "ok", ret |-> Undefined]

NextRestore ==
    \/ \E service \in RestoreServiceArgs : AddService(service)
    \/ \E ref \in Range(services) : RemoveService(ref)
    \/ \E value \in BOOLEAN : UpdateReachability(value)
    \/ PrepareAssociatedHAPAccessory
    \/ /\ pending # Undefined
       /\ ConfigFromData(pending)
       /\ pending' = Undefined

SpecRestore == InitRestore /\ [][NextRestore]_vars

(***************************************************************************)
(* new PlatformAccessory(displayName, UUID, category)                      *)
(***************************************************************************)
HexDigits ==
    {"0", "1", "2", "3", "4", "5", "6", "7", "8", "9",
     "a", "b", "c", "d", "e", "f", "A", "B", "C", "D", "E", "F"}

\* uuid.isValid of hap-nodejs: 8-4-4-4-12 hexadecimal digits, any case, the
\* version digit 1 to 5 and the variant digit 8, 9, a or b
IsValidUUID(s) ==
    /\ Len(s) = 36
    /\ \A i \in 1..36 :
          LET c == SubSeq(s, i, i)
          IN CASE i \in {9, 14, 19, 24} -> c = "-"
               [] i = 15 -> c \in {"1", "2", "3", "4", "5"}
               [] i = 20 -> c \in {"8", "9", "a", "b", "A", "B"}
               [] OTHER -> c \in HexDigits

\* the checks with the one of the UUID's format left out
ConstructorCheckWithoutFormat(name, uuid) ==
    IF ~Truthy(name) THEN "EmptyDisplayName"
    ELSE IF ~Truthy(uuid) THEN "EmptyUUID"
    ELSE "ok"

\* the three checks at the head of the constructor, in their order
ConstructorCheck(name, uuid) ==
    IF ~Truthy(name) THEN "EmptyDisplayName"
    ELSE IF ~Truthy(uuid) THEN "EmptyUUID"
    ELSE IF ~IsValidUUID(toString(uuid)) THEN "InvalidUUID"
    ELSE "ok"

\* the category kept as given, no default
CategoryAsGiven(cat) == IF cat = Undefined THEN "" ELSE cat.s

\* category || Accessory.Categories.OTHER
CategoryOrOther(cat) == IF Truthy(cat) THEN cat.s ELSE "OTHER"

ConstructorArgs ==
    {[displayName |-> n, UUID |-> u, category |-> c] :
        n \in {Undefined, Str(""), Str("Acc"), Str("Lamp 2")},
        u \in {Undefined, Str(""), Str("not-a-uuid"),
               Str("6a1b7b0e-3c5d-4f6a-8b7c-9d0e1f2a3b4c"),
               Str("6A1B7B0E-3C5D-4F6A-AB7C-9D0E1F2A3B4C"),
               Str("6a1b7b0e-3c5d-4f6a-8b7c-9d0e1f2a3b4"),
               Str("6a1b7b0e-3c5d-4f6a-8b7c-9d0e1f2a3b4cd"),
               Str("6a1b7b0e-3c5d-4f6a-7b7c-9d0e1f2a3b4c"),
               Str("6a1b7b0e-3c5d-4f6a-8b7c-9d0e1f2a3bzz"),
               Str("6a1b7b0e03c5d-4f6a-8b7c-9d0e1f2a3b4c")},
        c \in {Undefined, Str("OTHER"), Str("LIGHTBULB")}}

\* before the constructor has run there is no accessory: every field unset
InitNew ==
    /\ displayName = ""
    /\ UUID = ""
    /\ category = ""
    /\ context = ""
    /\ associatedPlugin = Undefined
    /\ associatedPlatform = Undefined
    /\ services = <<>>
    /\ reachable = FALSE
    /\ cameraSource = Undefined
    /\ associatedHAPAccessory = NoHAPAccessory
    /\ heap = [r \in PluginRefs |-> PluginService(r)]
    /\ pending \in ConstructorArgs
    /\ identify = NoIdentify
    /\ last = [op |-> "none", arg |-> Undefined, result |-> "ok", ret |-> Undefined]

New ==
    /\ last.op = "none"
    /\ LET check == ConstructorCheck(pending.displayName, pending.UUID)
       IN IF check # "ok"
          THEN /\ last' = [op |-> "new", arg |-> pending, result |-> check,
                           ret |-> Undefined]
               /\ UNCHANGED <<displayName, UUID, category, context, services,
                              reachable, heap>>
          ELSE LET name == toString(pending.displayName)
                   h == heap @@ (InfoRef :> InfoService(name))
                   out == AddObject(<<>>, NoHAPAccessory, h, InfoRef)
               IN /\ displayName' = name
                  /\ UUID' = toString(pending.UUID)
                  /\ category' = CategoryOrOther(pending.category)
                  /\ services' = out.services
                  /\ reachable' = FALSE
                  /\ context' = "{}"
                  /\ heap' = h
                  /\ last' = [op |-> "new", arg |-> pending, result |-> out.result,
                              ret |-> Undefined]
    /\ pending' = Undefined
    /\ UNCHANGED <<associatedPlugin, associatedPlatform, cameraSource,
                   associatedHAPAccessory, identify>>

SpecNew == InitNew /\ [][New]_vars

(***************************************************************************)
(* The registry and its two lookups.                                       *)
(***************************************************************************)
LookupSelectors ==
    {StringSelector("Lamp"), StringSelector("dim"), StringSelector("None"),
     FunctionSelector("TypeA"), FunctionSelector("Service")}

LookupSubtypes == {Undefined, Str("B"), Str("1"), Num(1)}

NextLookup ==
    \/ \E service \in ServiceArgs : AddService(service)
    \/ \E ref \in DOMAIN heap : RemoveService(ref)
    \/ \E name \in LookupSelectors : GetService(name)
    \/ \E name \in LookupSelectors, subtype \in LookupSubtypes :
          GetServiceByUUIDAndSubType(name, subtype)
    \/ PrepareAssociatedHAPAccessory

SpecLookup == Init /\ [][NextLookup]_vars

(***************************************************************************)
(* Properties of the service registry.                                     *)
(***************************************************************************)
\* the Service an addService argument stands for, in the heap h
ArgService(h, service) ==
    IF service.kind = "function"
    THEN NewService(service.ctor, service.displayName, service.subtype, <<>>)
    ELSE h[service.ref]

Without(seq, ref) == SelectSeq(seq, LAMBDA r : r # ref)

DuplicateRejected ==
    [][ (/\ last'.op = "addService"
         /\ \E i \in 1..Len(services) :
               LET existing == heap[services[i]]
                   service == ArgService(heap, last'.arg)
               IN /\ existing.UUID = service.UUID
                  /\ ~Truthy(service.subtype) \/ service.subtype = existing.subtype)
        => /\ last'.result \in {"DuplicateUUID", "DuplicateSubtype"}
           /\ services' = services
           /\ associatedHAPAccessory' = associatedHAPAccessory ]_vars

\* a full duplicate was refused while an accessory is attached
DuplicateRejectedWitness ==
    /\ last.op = "addService" /\ last.result = "DuplicateSubtype"
    /\ associatedHAPAccessory.attached
    /\ Len(services) > 1

\* C3: addService of a service whose UUID is that of an existing service, with
\* a subtype that differs from the subtype of every existing service of that
\* UUID (those without a subtype included), succeeds: it returns the service,
\* which becomes the last element of `services`, one longer than before.
DistinctSubtypeAccepted ==
    [][ (/\ last'.op = "addService" /\ last'.arg.kind = "object"
         /\ LET service == heap[last'.arg.ref]
            IN /\ Truthy(service.subtype)
               /\ \E i \in 1..Len(services) : heap[services[i]].UUID = service.UUID
               /\ \A i \in 1..Len(services) :
                     heap[services[i]].UUID = service.UUID
                        => \/ heap[services[i]].subtype = Undefined
                           \/ toString(heap[services[i]].subtype) # toString(service.subtype))
        => /\ last'.result = "ok"
           /\ last'.ret = last'.arg.ref
           /\ services' = Append(services, last'.arg.ref) ]_vars

\* C7: while an accessory is attached, its service list is the model's
\* `services`, element for element.
CollaboratorMirrorsServices ==
    associatedHAPAccessory.attached => associatedHAPAccessory.services = services

\* attached, and since then a service was added and another removed
CollaboratorMirrorsServicesWitness ==
    /\ associatedHAPAccessory.attached
    /\ last.op = "addService" /\ last.result = "ok"
    /\ InfoRef \notin Range(services)
    /\ Len(associatedHAPAccessory.services) = 2

\* C8: after updateReachability(v), `reachable` is v; the reachable flag of an
\* attached accessory is v too; the call does not fail without one.
ReachabilityMirrored ==
    last.op = "updateReachability"
        => /\ reachable = last.arg
           /\ last.result = "ok"
           /\ associatedHAPAccessory.attached
                 => associatedHAPAccessory.reachable = last.arg

\* updateReachability(true) on a model with an attached accessory
ReachabilityMirroredWitness ==
    /\ last.op = "updateReachability" /\ last.arg = TRUE
    /\ associatedHAPAccessory.attached

\* C9: removeService of a service that is no element of `services` (by
\* reference) raises nothing and changes nothing: not `services`, not the
\* subscriptions of the service, not the attached accessory.
RemoveAbsentIsNoOp ==
    [][ (last'.op = "removeService" /\ last'.arg \notin Range(services))
        => /\ last'.result = "ok"
           /\ UNCHANGED <<services, heap, associatedHAPAccessory>> ]_vars

\* removeService of an absent service that holds subscriptions, while another
\* service of its UUID and subtype is registered and an accessory is attached
RemoveAbsentIsNoOpWitness ==
    /\ last.op = "removeService" /\ last.ret = Undefined
    /\ heap[last.arg].listeners > 0
    /\ associatedHAPAccessory.attached
    /\ \E i \in 1..Len(services) :
          /\ heap[services[i]].UUID = heap[last.arg].UUID
          /\ heap[services[i]].subtype = heap[last.arg].subtype

\* the selectors that ask for the service svc: its display name, its type
SelectorsFor(svc) ==
    {FunctionSelector(svc.ctor)}
    \cup (IF svc.displayName.t = "string" THEN {StringSelector(svc.displayName.s)} ELSE {})

\* removeService of a present service takes exactly it out of `services` and
\* releases its subscriptions
RemovesExactly ==
    (last'.op = "removeService" /\ last'.arg \in Range(services))
        => /\ services' = Without(services, last'.arg)
           /\ Len(services') = Len(services) - 1
           /\ last'.arg \in DOMAIN heap' => heap'[last'.arg].listeners = 0

\* C10 as stated: ... and afterwards getService by its display name or by its
\* type returns none.
RemovePresentThenNone ==
    [][ /\ RemovesExactly
        /\ (last'.op = "removeService" /\ last'.arg \in Range(services))
              => \A name \in SelectorsFor(heap[last'.arg]) :
                    GetServiceIn(services', heap', name) = NoService ]_vars

\* C10 amended: ... and afterwards getService by its display name or by its
\* type returns none exactly when no remaining service matches the selector,
\* and getService never returns a service that is not in `services`.
RemovePresentThenNotFound ==
    /\ [][ /\ RemovesExactly
           /\ (last'.op = "removeService" /\ last'.arg \in Range(services))
                 => \A name \in SelectorsFor(heap[last'.arg]) :
                       /\ GetServiceIn(services', heap', name) # last'.arg
                       /\ GetServiceIn(services', heap', name) = NoService
                             <=> \A r \in Range(services') : ~Matches(heap'[r], name) ]_vars
    /\ [](\A r \in DOMAIN heap : \A name \in SelectorsFor(heap[r]) :
            GetServiceIn(services, heap, name) \in Range(services) \cup {NoService})

\* the service at position 0 was removed, with an accessory attached
RemovePresentWitness ==
    /\ last.op = "removeService" /\ last.ret = Str("0") /\ last.arg = InfoRef
    /\ associatedHAPAccessory.attached
    /\ Len(services) > 0

\* C15: in every state reached by addService, removeService,
\* configureCameraSource and deserialization, the accessory-information
\* service is in `services` and is its first element.
InfoServiceFirst ==
    /\ Len(services) >= 1
    /\ heap[services[1]].UUID = AccessoryInformationUUID

\* the service `ref` has the UUID of a service of svcs and no subtype, or
\* the subtype of that service
ViolatesIdentity(svcs, h, ref) ==
    \E i \in 1..Len(svcs) :
        /\ h[svcs[i]].UUID = h[ref].UUID
        /\ h[ref].subtype = Undefined \/ h[ref].subtype = h[svcs[i]].subtype

\* C17: configureCameraSource(source) stores the source and adds its services
\* one by one, in order, as addService does: when it succeeds `services` is
\* the previous list followed by the services of the source, each mirrored
\* onto an attached accessory; when the service whose turn it is violates the
\* identity invariant, the call fails with a duplicate error of addService
\* and that service is not added.
CameraServicesThroughAddService ==
    [][ last'.op = "configureCameraSource" =>
          LET source == CameraServices(last'.arg)
              hap == associatedHAPAccessory
          IN /\ cameraSource' = last'.arg
             /\ last'.result = "ok"
                   => /\ services' = services \o source
                      /\ hap.attached
                            => associatedHAPAccessory'.services = hap.services \o source
             /\ \A k \in 1..Len(source) :
                   LET before == SubSeq(source, 1, k - 1)
                   IN (/\ Len(services') >= Len(services) + k - 1
                       /\ ViolatesIdentity(services \o before, heap, source[k]))
                      => /\ last'.result \in {"DuplicateUUID", "DuplicateSubtype"}
                         /\ services' = services \o before
                         /\ hap.attached
                               => associatedHAPAccessory'.services
                                     = hap.services \o before ]_vars

\* the first service of the source was added and mirrored, the second one
\* refused as a duplicate
CameraServicesThroughAddServiceWitness ==
    /\ last.op = "configureCameraSource" /\ last.result = "DuplicateUUID"
    /\ cameraSource = "cam"
    /\ services = <<InfoRef, 5, 7>>
    /\ associatedHAPAccessory.attached
    /\ associatedHAPAccessory.services = services

\* ret is the element of lowest index of `services` that satisfies hit, and
\* none when no element does
FirstHit(ret, hit(_)) ==
    IF \E i \in 1..Len(services) : hit(heap[services[i]])
    THEN \E i \in 1..Len(services) :
            /\ ret = services[i]
            /\ hit(heap[services[i]])
            /\ \A j \in 1..(i - 1) : ~hit(heap[services[j]])
    ELSE ret = NoService

\* C11: getService(selector) returns the service of lowest index in `services`
\* that matches the selector and none when none matches;
\* getServiceByUUIDAndSubType(selector, subtype) returns the service of lowest
\* index that matches the selector and has exactly that subtype, and none
\* otherwise; neither changes `services` or the attached accessory.
LookupReturnsFirstMatch ==
    [][ /\ last'.op = "getService"
              => /\ UNCHANGED <<services, associatedHAPAccessory, heap>>
                 /\ FirstHit(last'.ret, LAMBDA svc : Matches(svc, last'.arg))
        /\ last'.op = "getServiceByUUIDAndSubType"
              => /\ UNCHANGED <<services, associatedHAPAccessory, heap>>
                 /\ FirstHit(last'.ret,
                             LAMBDA svc : /\ Matches(svc, last'.arg[1])
                                          /\ svc.subtype = last'.arg[2]) ]_vars

\* a lookup by type and subtype passed over an earlier service of that type
\* and returned a later one, while an accessory is attached
LookupReturnsFirstMatchWitness ==
    /\ last.op = "getServiceByUUIDAndSubType"
    /\ associatedHAPAccessory.attached
    /\ \E i \in 2..Len(services) :
          /\ last.ret = services[i]
          /\ \E j \in 1..(i - 1) : Matches(heap[services[j]], last.arg[1])
          /\ \E j \in (i + 1)..Len(services) : Matches(heap[services[j]], last.arg[1])

\* C12: for every identify signal of the attached accessory, by the
\* subscribers present when it arrives: with at least one subscriber, identify
\* is emitted to each of them with the paired flag and the callback, exactly
\* one message {event: "identify", data: paired} goes to the parent process
\* and the callback is not invoked by the accessory; with none, the callback
\* is invoked exactly once and no message is sent.
IdentifyRelayedOrAcknowledged ==
    [][ last'.op = "identify" =>
          LET paired == last'.arg
              callback == identify'.signals
              n == identify.listeners
          IN /\ callback = identify.signals + 1
             /\ identify'.listeners = n
             /\ IF n > 0
                THEN /\ identify'.sent =
                           identify.sent \o <<[event |-> "identify", data |-> paired]>>
                     /\ Len(identify'.emitted) = Len(identify.emitted) + n
                     /\ SubSeq(identify'.emitted, 1, Len(identify.emitted))
                           = identify.emitted
                     /\ \A k \in 1..n :
                           \E e \in (Len(identify.emitted) + 1)..Len(identify'.emitted) :
                              identify'.emitted[e] = [listener |-> k, paired |-> paired,
                                                      callback |-> callback]
                     /\ identify'.acked = identify.acked
                ELSE /\ identify'.acked = identify.acked \o <<callback>>
                     /\ identify'.sent = identify.sent
                     /\ identify'.emitted = identify.emitted ]_vars

\* a signal was acknowledged for want of a subscriber, and a later one,
\* unpaired, was relayed to two subscribers and to the parent process
IdentifyRelayedOrAcknowledgedWitness ==
    /\ last.op = "identify" /\ last.arg = FALSE
    /\ identify.acked = <<1>>
    /\ identify.listeners = 2
    /\ identify.sent = <<[event |-> "identify", data |-> FALSE]>>
    /\ Len(identify.emitted) = 2

(***************************************************************************)
(* Properties of construction.                                             *)
(***************************************************************************)
\* the identifiers among the inputs that have the format of a UUID
WellFormedIdentifiers ==
    {Str("6a1b7b0e-3c5d-4f6a-8b7c-9d0e1f2a3b4c"),
     Str("6A1B7B0E-3C5D-4F6A-AB7C-9D0E1F2A3B4C")}

\* a displayName or identifier that is missing or the empty string
Empty(v) == v \in {Undefined, Str("")}

ValidArgs(args) ==
    /\ ~Empty(args.displayName)
    /\ args.UUID \in WellFormedIdentifiers

\* C13: for valid (displayName, identifier, category) the constructed
\* accessory has exactly one service, the accessory-information service with
\* its name (the displayName), manufacturer, model and serial number set, is
\* not reachable, has an empty context, no attached accessory, and the given
\* category, or OTHER when none is given.
ConstructionYieldsInfoService ==
    (last.op = "new" /\ ValidArgs(last.arg))
        => /\ last.result = "ok"
           /\ displayName = last.arg.displayName.s
           /\ UUID = last.arg.UUID.s
           /\ Len(services) = 1
           /\ LET info == heap[services[1]]
              IN /\ info.UUID = AccessoryInformationUUID
                 /\ info.ctor = "AccessoryInformation"
                 /\ {<<c.displayName, c.value>> : c \in Range(info.characteristics)}
                       = {<<"Name", displayName>>,
                          <<"Manufacturer", "Default-Manufacturer">>,
                          <<"Model", "Default-Model">>,
                          <<"Serial Number", "Default-SerialNumber">>}
           /\ reachable = FALSE
           /\ context = "{}"
           /\ ~associatedHAPAccessory.attached
           /\ category = IF last.arg.category = Undefined THEN "OTHER"
                         ELSE last.arg.category.s

\* an accessory constructed from an upper-case UUID and no category
ConstructionYieldsInfoServiceWitness ==
    /\ last.op = "new" /\ last.result = "ok"
    /\ last.arg.category = Undefined
    /\ last.arg.UUID = Str("6A1B7B0E-3C5D-4F6A-AB7C-9D0E1F2A3B4C")
    /\ displayName = "Lamp 2"
    /\ Len(services) = 1

\* C14: construction fails with an invalid-argument error and produces no
\* accessory exactly when displayName is empty, the identifier is empty or the
\* identifier has not the format of a UUID; no service was added before.
ConstructionRejectsInvalid ==
    last.op = "new"
        => /\ last.result \in {"EmptyDisplayName", "EmptyUUID", "InvalidUUID"}
                 <=> ~ValidArgs(last.arg)
           /\ last.result # "ok"
                 => /\ services = <<>>
                    /\ InfoRef \notin DOMAIN heap
                    /\ displayName = "" /\ UUID = ""

\* construction refused for an identifier with a wrong variant digit
ConstructionRejectsInvalidWitness ==
    /\ last.op = "new" /\ last.result = "InvalidUUID"
    /\ last.arg.UUID = Str("6a1b7b0e-3c5d-4f6a-7b7c-9d0e1f2a3b4c")
    /\ services = <<>>

(***************************************************************************)
(* Properties of the dictionary and of the way back from it.               *)
(***************************************************************************)
\* the composite keys of the services linked from the service `ref`
LinkedKeys(h, ref) ==
    {IF t = BuiltinRef THEN "undefined" ELSE CompositeKey(h[t].UUID, h[t].subtype) :
        t \in Range(h[ref].linkedServices)}

\* C4: a model whose services are linked among themselves, read back from its
\* own dictionary, has the displayName, UUID, category and context it had and
\* as many services in the same order, each with the UUID, subtype and
\* characteristics it had and with the same set of composite keys of linked
\* services.
RoundTripLaw ==
    [][ (/\ last.op = "dictionaryPresentation"
         /\ last'.op = "configFromData"
         /\ \A r \in Range(services) : Range(heap[r].linkedServices) \subseteq Range(services))
        => /\ last'.result = "ok"
           /\ <<displayName', UUID', category', context'>>
                 = <<displayName, UUID, category, context>>
           /\ Len(services') = Len(services)
           /\ \A i \in 1..Len(services) :
                 LET was == heap[services[i]]
                     is == heap'[services'[i]]
                 IN /\ is.UUID = was.UUID
                    /\ is.subtype = was.subtype
                    /\ is.characteristics = was.characteristics
                    /\ LinkedKeys(heap', services'[i]) = LinkedKeys(heap, services[i]) ]_vars

\* C5: in the dictionary, the entry of linkedServices under the composite key
\* of a service lists, in order, the composite keys (UUID and own subtype) of
\* the services linked from it.
LinkedServicesAreTargetKeys ==
    last.op = "dictionaryPresentation"
        => \A i \in 1..Len(services) :
              LET service == heap[services[i]]
                  key == CompositeKey(service.UUID, service.subtype)
              IN /\ key \in DOMAIN last.ret.linkedServices.map
                 /\ last.ret.linkedServices.map[key] =
                       [k \in 1..Len(service.linkedServices) |->
                           CompositeKey(heap[service.linkedServices[k]].UUID,
                                        heap[service.linkedServices[k]].subtype)]

\* the pairs (source, target) of reconstructed services whose keys the
\* dictionary links: the source key a key of linkedServices, the target key
\* in its list, each the composite key of a service that was reconstructed
KeyedServices(data, refs, key) ==
    {refs[i] : i \in {k \in 1..Len(data.services) :
         /\ CompositeKey(data.services[k].UUID, data.services[k].subtype) = key
         /\ ServicesMapLookup(data, refs, key) = refs[k]}}

ExpectedEdges(data, refs) ==
    IF ~data.linkedServices.present THEN {}
    ELSE UNION {KeyedServices(data, refs, key)
                  \X UNION {KeyedServices(data, refs, data.linkedServices.map[key][k]) :
                              k \in 1..Len(data.linkedServices.map[key])} :
                key \in DOMAIN data.linkedServices.map}

\* C6: reading a dictionary back never fails over its linkedServices, and the
\* links of the reconstructed model are exactly those between reconstructed
\* services that the keys name; a key that names no service of the
\* dictionary gives no link.
StaleLinksSkipped ==
    last.op = "configFromData"
        => /\ last.result = "ok"
           /\ {<<r, t>> \in Range(services) \X (Range(services) \cup {BuiltinRef}) :
                  t \in Range(heap[r].linkedServices)}
                 = ExpectedEdges(last.arg, services)
           /\ \A r \in Range(services) :
                 Range(heap[r].linkedServices) \subseteq Range(services)

IdentityAfterRestore ==
    /\ \A i, j \in 1..Len(services) :
          i # j => ~(/\ heap[services[i]].UUID = heap[services[j]].UUID
                    /\ heap[services[i]].subtype = heap[services[j]].subtype)
    /\ \A i \in 1..Len(services) :
          ServicesMapLookup(last.arg, services,
                            CompositeKey(heap[services[i]].UUID,
                                         heap[services[i]].subtype)) = services[i]

\* the entries of d.services have composite keys that differ pairwise
DistinctKeys(d) ==
    \A i, j \in 1..Len(d.services) :
        i # j => CompositeKey(d.services[i].UUID, d.services[i].subtype)
                    # CompositeKey(d.services[j].UUID, d.services[j].subtype)

\* C18 as stated: for any dictionary d, after deserializing d no two services
\* share both UUID and subtype and the lookup maps each composite key to the
\* one reconstructed service with that UUID and subtype.
RestoreGuardsIdentity ==
    (last.op = "configFromData" /\ last.result = "ok") => IdentityAfterRestore

\* C18 amended: for any dictionary d whose service entries have composite
\* keys that differ pairwise, after deserializing d no two services share
\* both UUID and subtype and the lookup maps each composite key to the one
\* reconstructed service with that UUID and subtype.
RestoreKeepsDistinctKeys ==
    (last.op = "configFromData" /\ last.result = "ok" /\ DistinctKeys(last.arg))
        => IdentityAfterRestore

\* restored: two services of one UUID, told apart by the subtype, and a link
\* resolved through the lookup
RestoreKeepsDistinctKeysWitness ==
    /\ last.op = "configFromData" /\ last.result = "ok"
    /\ Len(services) = 2
    /\ heap[services[1]].UUID = heap[services[2]].UUID
    /\ heap[services[1]].subtype # heap[services[2]].subtype
    /\ heap[services[2]].linkedServices = <<services[1]>>

\* the attached accessory, if there is one, has the reachable flag and the
\* service list of the model
Consistent ==
    associatedHAPAccessory.attached
        => /\ associatedHAPAccessory.reachable = reachable
           /\ associatedHAPAccessory.services = services

\* C19 as stated: in every state reached by any interleaving of the
\* attachment, updateReachability, addService, removeService and
\* deserialization in which an accessory is attached, its reachable flag is
\* the model's `reachable` and its service list is the model's `services`.
CollaboratorConsistent == Consistent

\* C19 amended: the same, for the states reached with no deserialization since
\* the accessory was attached: the attachment makes the two consistent, and
\* updateReachability, addService and removeService keep them so.
CollaboratorConsistentSinceAttached ==
    [][ /\ last'.op = "prepareAssociatedHAPAccessory" => Consistent'
        /\ (Consistent /\ last'.op # "configFromData") => Consistent' ]_vars

\* restored, attached afterwards, and then a service added and the
\* accessory made reachable: the attached accessory has followed
CollaboratorConsistentSinceAttachedWitness ==
    /\ last.op = "updateReachability" /\ reachable
    /\ pending = Undefined
    /\ associatedHAPAccessory.attached
    /\ associatedHAPAccessory.reachable
    /\ Len(services) = 3
    /\ associatedHAPAccessory.services = services
    /\ services[1] \notin {InfoRef} \cup PluginRefs
    /\ services[3] \in PluginRefs

====
